---- MODULE Spec2Model ----
(***************************************************************************)
(* ContractScrapper: the polling driver contract_scraping with the         *)
(* snapshot fetch get_last_n_contracts, the retry decorator                *)
(* driver_wait_exception_handler, the novelty function dict_complement_b   *)
(* and the search github_search (src/common), and the start-up of the      *)
(* script EthContractScrapper.py with its exit handler.                    *)
(*                                                                         *)
(* A text is a sequence of atoms: a word, a digit or a separator is one    *)
(* atom.  A Python dict is the sequence of its <<key, value>> items in     *)
(* insertion order.                                                        *)
(***************************************************************************)
EXTENDS Integers, Sequences, FiniteSets, TLC

(* ---------------------------- bounds ----------------------------------- *)

\* snapshot size n handed to get_last_n_contracts (the source default is 15)
NContracts == 2

\* transient failures the page is allowed to produce inside one wrapped call
MaxFail == 2

\* largest admission threshold (limit) the driver is started with
MaxLimit == 2

(* ---------------------------- values ----------------------------------- *)

\* None where the other values are texts or locators, which are sequences
None == <<"None">>

\* no exception in flight, no call running
Nothing == "Nothing"

\* exception classes; TimeoutException is a subclass of WebDriverException
WebDriverException == "WebDriverException"
TimeoutException == "TimeoutException"
IndexError == "IndexError"
ValueError == "ValueError"
TypeError == "TypeError"
NameError == "NameError"
ConnectionError == "ConnectionError"
KeyboardInterrupt == "KeyboardInterrupt"
SystemExit == "SystemExit"

\* the classes an exception of class e is an instance of
Bases(e) ==
    IF e = TimeoutException THEN {TimeoutException, WebDriverException} ELSE {e}

\* the selenium failures of a page that did not load or render
Transient == {WebDriverException, TimeoutException}

\* the listing rows the explorer can render (row.text)
RowTexts ==
    { <<"0x1", " ", "Foo">>,
      <<"0x1", " ", "Bar">>,
      <<"0x2", " ", "Baz", " ", "v0.8">>,
      <<"0x3">> }

\* what content.find_elements(By.TAG_NAME, "tr") can return
RECURSIVE SeqsUpTo(_, _)
SeqsUpTo(S, len) ==
    IF len = 0 THEN {<<>>}
    ELSE LET shorter == SeqsUpTo(S, len - 1)
         IN  shorter \cup {Append(s, x) : s \in {t \in shorter : Len(t) = len - 1}, x \in S}

\* a row past the first n: range(n) never reads it, so one text stands for all
ExtraRow == <<"0x9", " ", "Extra">>

\* tables of up to n rows, and tables with one row more than is read
Listings ==
    SeqsUpTo(RowTexts, NContracts)
    \cup {Append(s, ExtraRow) : s \in {t \in SeqsUpTo(RowTexts, NContracts) : Len(t) = NContracts}}

(* ------------------------ python helpers ------------------------------- *)

\* re.split(" ", text): the pieces of text between the separators
RECURSIVE ReSplit(_, _)
ReSplit(sep, text) ==
    IF \A i \in DOMAIN text : text[i] /= sep THEN <<text>>
    ELSE LET i == CHOOSE j \in DOMAIN text :
                      text[j] = sep /\ \A k \in 1..(j - 1) : text[k] /= sep
         IN  <<SubSeq(text, 1, i - 1)>> \o ReSplit(sep, SubSeq(text, i + 1, Len(text)))

\* dict operations on the item sequence
DictKeys(d) == {d[i][1] : i \in DOMAIN d}

DictGet(d, k) == d[CHOOSE i \in DOMAIN d : d[i][1] = k][2]

\* mutation: a list of pairs instead of a dict, every row adds an item
DictSet_append(d, k, v) == Append(d, <<k, v>>)

\* d[k] = v : a present key keeps its position, a new key goes last
DictSet(d, k, v) ==
    IF k \in DictKeys(d)
    THEN [i \in DOMAIN d |-> IF d[i][1] = k THEN <<k, v>> ELSE d[i]]
    ELSE Append(d, <<k, v>>)

(* ------------------------ dict_complement_b ---------------------------- *)

\* mutation: a changed value also counts as new
dict_complement_b_values(old_dict, new_dict) ==
    LET Keep(item) == \/ item[1] \notin DictKeys(old_dict)
                      \/ DictGet(old_dict, item[1]) /= item[2]
    IN  SelectSeq(new_dict, Keep)

\* mutation: the membership test is lost, every item of new_dict is kept
dict_complement_b_all(old_dict, new_dict) == new_dict

\* mutation: the keys come out of a set difference, here in reverse order
dict_complement_b_reversed(old_dict, new_dict) ==
    LET Keep(item) == item[1] \notin DictKeys(old_dict)
        kept == SelectSeq(new_dict, Keep)
    IN  [i \in DOMAIN kept |-> kept[Len(kept) + 1 - i]]

\* {k: new_dict[k] for k in new_dict if k not in old_dict}
dict_complement_b(old_dict, new_dict) ==
    LET Keep(item) == item[1] \notin DictKeys(old_dict)
    IN  SelectSeq([i \in DOMAIN new_dict |->
                      <<new_dict[i][1], DictGet(new_dict, new_dict[i][1])>>], Keep)

(* ------------------------ get_last_n_contracts ------------------------- *)

\* return_dict after the first `number` turns of "for number in range(n)"
RECURSIVE RowsToDict(_, _)
RowsToDict(rows, number) ==
    IF number = 0 THEN <<>>
    ELSE LET row == rows[number]
             key == ReSplit(" ", row)[1]
         IN  DictSet(RowsToDict(rows, number - 1), key, row)

\* the body of get_last_n_contracts once the table has rendered `rows`:
\* rows[number] raises IndexError when the table has fewer than n rows
get_last_n_contracts(rows, n) ==
    IF \E number \in 0..(n - 1) : number >= Len(rows)
    THEN [exc |-> IndexError, value |-> <<>>]
    ELSE [exc |-> Nothing, value |-> RowsToDict(rows, n)]

(* ---------------------------- github_search ---------------------------- *)

Phrase == "We couldn't find any"

Digits == <<"0", "1", "2", "3", "4", "5", "6", "7", "8", "9">>

DigitSet == {Digits[i] : i \in DOMAIN Digits}

\* the character class [0-9,.]
CountClass == DigitSet \cup {",", "."}

\* re.compile("([0-9,.]+)").findall(text): the maximal runs of the class
RECURSIVE ReFindAll(_)
ReFindAll(text) ==
    IF \A i \in DOMAIN text : text[i] \notin CountClass THEN <<>>
    ELSE LET first == CHOOSE i \in DOMAIN text :
                          /\ text[i] \in CountClass
                          /\ \A k \in 1..(i - 1) : text[k] \notin CountClass
             last  == CHOOSE j \in first..Len(text) :
                          /\ \A k \in first..j : text[k] \in CountClass
                          /\ (j = Len(text) \/ text[j + 1] \notin CountClass)
         IN  <<SubSeq(text, first, last)>> \o ReFindAll(SubSeq(text, last + 1, Len(text)))

\* mutation: the separators are left in the number
ReSubComma_keep(number) == number

\* re.sub(",", "", number)
ReSubComma(number) == SelectSeq(number, LAMBDA c : c /= ",")

\* int(s) accepts a non-empty run of decimal digits
IsIntLiteral(s) == s /= <<>> /\ \A i \in DOMAIN s : s[i] \in DigitSet

RECURSIVE IntOf(_)
IntOf(s) ==
    IF s = <<>> THEN 0
    ELSE 10 * IntOf(SubSeq(s, 1, Len(s) - 1))
         + ((CHOOSE d \in DOMAIN Digits : Digits[d] = s[Len(s)]) - 1)

\* mutation: a count equal to the limit is discarded too
TooManyResults_ge(number, limit) == number >= limit

\* "if int(number) > int(limit)"
TooManyResults(number, limit) == number > limit

\* github_search from the header text on: phrase test, count parse, limit test
github_search(text, limit, current_url) ==
    IF \E i \in DOMAIN text : text[i] = Phrase
    THEN [exc |-> Nothing, value |-> None]
    ELSE LET groups == ReFindAll(text)
         IN  IF groups = <<>>
             THEN [exc |-> IndexError, value |-> None]
             ELSE LET number == ReSubComma(groups[1])
                  IN  IF ~IsIntLiteral(number)
                      THEN [exc |-> ValueError, value |-> None]
                      ELSE IF TooManyResults(IntOf(number), limit)
                           THEN [exc |-> Nothing, value |-> None]
                           ELSE [exc |-> Nothing, value |-> current_url]

\* the decimal digits of a count, as the results page prints them
RECURSIVE DigitsOf(_)
DigitsOf(c) ==
    IF c < 10 THEN <<Digits[c + 1]>>
    ELSE DigitsOf(c \div 10) \o <<Digits[(c % 10) + 1]>>

CountHeader(c) == DigitsOf(c) \o <<" ", "repository", " ", "results">>

\* header texts whose count indicator is not a number: a decimal point, a
\* lone separator, no digit at all
UnparsableHeaders ==
    { <<"1", ".", "5", "K", " ", "results">>,
      <<",", " ", "results">>,
      <<"repository", " ", "results">> }

\* a count printed with a thousands separator
SeparatedHeader == <<"1", ",", "2", "3", "4", " ", "repository", " ", "results">>

\* the header texts the search page can show
Headers ==
    {CountHeader(c) : c \in 0..(MaxLimit + 1)}
    \cup { <<Phrase, " ", "repositories">>, SeparatedHeader }
    \cup UnparsableHeaders

(* ---------------------- driver_wait_exception_handler ------------------ *)

\* mutation: only the second class of the clause is caught
Catches_timeout_only(e) == TimeoutException \in Bases(e)

\* mutation: a bare except
Catches_everything(e) == TRUE

\* "except WebDriverException or TimeoutException": the clause evaluates to
\* WebDriverException, which catches the class and its subclasses
Catches(e) == WebDriverException \in Bases(e)

(* ------------------------------ state ---------------------------------- *)

VARIABLES
    pc,                \* position of the program
    limit,             \* arguments[0], the admission threshold
    old_contracts,     \* contract_scraping locals
    new_contracts,
    found_contracts,
    idx,               \* position of the for loop in found_contracts.items()
    contract_address,
    contract_name,
    search_address,
    search_name,
    stage,             \* which github_search call is running: "address" / "name"
    assign,            \* the local the running get_last_n_contracts call is assigned to
    value,             \* wrapper local: the wrapped function's return value
    exc,               \* the exception in flight, Nothing when there is none
    current_url,       \* driver.current_url
    header,            \* result_number.text of the search page
    rows,              \* the rows the listing rendered in the last invocation
    calls,             \* the argument tuples of the wrapper's invocations of func
    waits,             \* sleeps done by the running call
    fails,             \* transient failures the page produced in the running call
    issued,            \* the searches issued for the current record
    sent,              \* telegram messages of the current cycle
    log,               \* log entries of the current cycle
    session,           \* the browser session: "none", "open", "closed"
    closes,            \* number of driver.close() calls
    registered,        \* the atexit registry
    exit_path,         \* how the process ended: "none", "normal", "fatal_error", "signal"
    driver,            \* the driver argument of contract_scraping
    touched,           \* the sessions a navigation, refresh or read was issued on
    wpc,               \* runner: the position of each target's worker
    wcycles,           \* runner: the polling cycles each worker has completed
    spc,               \* position of get_all_search_contracts
    max_results,       \* its max_results argument
    cards,             \* the "card-body p-4" elements of the page being read
    index,             \* search_contracts_to_df: the for loop's position in cards
    table,             \* search_contracts_to_df: the rows collected from the page
    pages,             \* get_all_search_contracts: the frames of the pages read
    info,              \* get_all_search_contracts: the frame returned and exported
    lpc,               \* position of github_search before its driver.get
    language,          \* github_search: the lang argument as it was passed
    lang,              \* github_search: the local lang
    url,               \* github_search: the query URL
    tracking,          \* whether the history of snapshots is recorded
    snaps              \* history: the key sets of the last snapshots returned, newest last

locals == <<old_contracts, new_contracts, found_contracts, idx,
            contract_address, contract_name, search_address, search_name>>
wrap == <<assign, value, rows, calls, waits, fails>>
search == <<stage, header, issued>>
outputs == <<sent, log>>
process == <<session, closes, registered, exit_path>>
browser == <<current_url, touched>>
runner == <<wpc, wcycles>>
scrape == <<spc, max_results, cards, index, table, pages, info>>
history == <<tracking, snaps>>
query == <<lpc, language, lang, url>>
config == <<limit, driver, runner, scrape, query, history>>

vars == <<pc, config, locals, wrap, search, exc, browser, outputs, process>>

web_url == "etherscan.io"

\* web_choices entries the runner can be given as targets
Targets == {"etherscan.io", "ftmscan.com"}

\* the Chrome sessions a driver argument can stand for
Sessions == {"driver_1", "driver_2"}

\* mutation: the call goes to a module-level driver, as in the one-file script
BrowserOf_global(d) == "driver_1"

\* driver.get / WebDriverWait(driver, ...) / driver.refresh() / driver.current_url:
\* driver is the parameter of the function
BrowserOf(d) == d

\* the locator github_search navigates to for a keyword
SearchUrl(keyword) == <<"https://github.com/search?q=", keyword>>

ListingUrl(website) == <<"https://", website, "/contractsVerified/1?ps=100">>

\* get_all_search_contracts is not running
ScrapeIdle ==
    /\ spc = "none"
    /\ max_results = 0
    /\ cards = <<>> /\ index = 0 /\ table = <<>>
    /\ pages = <<>> /\ info = <<>>

\* github_search is not at its first lines
QueryIdle ==
    /\ lpc = "none"
    /\ language = <<>> /\ lang = <<>> /\ url = <<>>

\* the state in which a program starts, with or without the recorded history
Start(track) ==
    /\ pc \in {"cs_start", "eth_define"}
    /\ limit \in 0..MaxLimit
    /\ old_contracts = <<>>
    /\ new_contracts = <<>>
    /\ found_contracts = <<>>
    /\ idx = 0
    /\ contract_address = None
    /\ contract_name = None
    /\ search_address = None
    /\ search_name = None
    /\ stage = Nothing
    /\ assign = Nothing
    /\ value = <<>>
    /\ exc = Nothing
    /\ current_url = None
    /\ header = <<>>
    /\ rows = <<>>
    /\ calls = <<>>
    /\ waits = 0
    /\ fails = 0
    /\ issued = <<>>
    /\ sent = <<>>
    /\ log = <<>>
    /\ session = IF pc = "cs_start" THEN "open" ELSE "none"
    /\ closes = 0
    /\ registered = <<>>
    /\ exit_path = "none"
    /\ driver \in Sessions
    /\ touched = {}
    /\ wpc = [t \in Targets |-> "none"]
    /\ wcycles = [t \in Targets |-> 0]
    /\ ScrapeIdle
    /\ QueryIdle
    /\ tracking = track /\ snaps = <<>>

Init == Start(FALSE)

(* ------------------- contract_scraping: snapshot fetch ----------------- *)

\* the call of the decorated get_last_n_contracts(driver, web_url)
CallGetLastNContracts(target) ==
    /\ pc' = "glc_call"
    /\ assign' = target
    /\ calls' = <<>>
    /\ waits' = 0
    /\ fails' = 0
    /\ rows' = <<>>
    /\ value' = <<>>

\* old_contracts = get_last_n_contracts(driver, web_url)
CsStart ==
    /\ pc = "cs_start"
    /\ CallGetLastNContracts("old_contracts")
    /\ UNCHANGED <<config, locals, search, exc, browser, outputs, process>>

\* wrapper: value = func(*args, **kwargs); func is get_last_n_contracts
WrapperInvoke ==
    /\ pc = "glc_call"
    /\ touched' = touched \cup {BrowserOf(driver)}
    /\ calls' = Append(calls, <<"driver", web_url>>)
    /\ \/ \* driver.get(url) fails
          /\ fails < MaxFail
          /\ fails' = fails + 1
          /\ exc' = WebDriverException
          /\ pc' = "glc_except"
          /\ UNCHANGED <<rows, value, current_url>>
       \/ \* the table does not appear within wait_time
          /\ fails < MaxFail
          /\ fails' = fails + 1
          /\ exc' = TimeoutException
          /\ current_url' = ListingUrl(web_url)
          /\ pc' = "glc_except"
          /\ UNCHANGED <<rows, value>>
       \/ \* the table renders some rows
          \E r \in Listings :
             LET res == get_last_n_contracts(r, NContracts)
             IN  /\ rows' = r
                 /\ current_url' = ListingUrl(web_url)
                 /\ exc' = res.exc
                 /\ value' = res.value
                 /\ pc' = IF res.exc = Nothing THEN "glc_else" ELSE "glc_except"
                 /\ UNCHANGED fails
    /\ UNCHANGED <<config, locals, search, assign, waits, outputs, process>>

\* wrapper: the except clause; an exception it does not catch leaves the wrapper
WrapperExcept ==
    /\ pc = "glc_except"
    /\ IF Catches(exc)
       THEN /\ waits' = waits + 1
            /\ exc' = Nothing
            /\ pc' = "glc_call"
       ELSE /\ pc' = "glc_raise"
            /\ UNCHANGED <<waits, exc>>
    /\ UNCHANGED <<config, locals, search, assign, value, rows, calls, fails,
                   browser, outputs, process>>

\* an exception out of get_last_n_contracts: contract_scraping has no handler
CsUncaught ==
    /\ pc = "glc_raise"
    /\ pc' = "cs_raised"
    /\ UNCHANGED <<config, locals, wrap, search, exc, browser, outputs, process>>

\* the history keeps the snapshot being diffed and the two before it
Newest(h) == IF Len(h) > 3 THEN Tail(h) ELSE h

\* wrapper: else: break; return value -- and the caller's assignment;
\* in the loop, found_contracts = dict_complement_b(old_contracts, new_contracts).
\* The locals of the finished call are gone.
WrapperReturn ==
    /\ pc = "glc_else"
    /\ snaps' = IF tracking THEN Newest(Append(snaps, DictKeys(value))) ELSE snaps
    /\ IF assign = "old_contracts"
       THEN /\ old_contracts' = value
            /\ pc' = "cs_while"
            /\ UNCHANGED <<new_contracts, found_contracts, idx>>
       ELSE /\ new_contracts' = value
            /\ found_contracts' = dict_complement_b(old_contracts, value)
            /\ idx' = 1
            /\ pc' = "cs_for"
            /\ UNCHANGED old_contracts
    /\ assign' = Nothing /\ value' = <<>> /\ rows' = <<>> /\ calls' = <<>>
    /\ waits' = 0 /\ fails' = 0
    /\ UNCHANGED <<limit, driver, runner, scrape, query, tracking,
                   contract_address, contract_name, search_address, search_name,
                   search, exc, browser, outputs, process>>

\* while True: new_contracts = get_last_n_contracts(driver, web_url)
CsWhile ==
    /\ pc = "cs_while"
    /\ CallGetLastNContracts("new_contracts")
    /\ sent' = <<>>
    /\ log' = <<>>
    /\ UNCHANGED <<config, locals, search, exc, browser, process>>

(* ------------------- contract_scraping: resolving ---------------------- *)

\* the call github_search(driver, keyword, "Solidity", *arguments)
CallGithubSearch(which) ==
    /\ pc' = "gs_get"
    /\ stage' = which
    /\ header' = <<>>
    /\ waits' = 0
    /\ fails' = 0

\* mutation: the lines after the for loop sit inside it, the loop runs one turn
HasNext_once(i, items) == i <= Len(items) /\ i <= 1

\* "for key, value in found_contracts.items()": is there an item for this turn
HasNext(i, items) == i <= Len(items)

\* mutation: the previous snapshot is updated in place, old keys stay
Supersede_update(old_dict, new_dict) ==
    new_dict \o SelectSeq(old_dict, LAMBDA item : item[1] \notin DictKeys(new_dict))

\* old_contracts = copy.copy(new_contracts)
Supersede(old_dict, new_dict) == new_dict

\* for key, value in found_contracts.items(): the two re.split lines and the
\* first search; after the last item, old_contracts = copy.copy(new_contracts)
CsFor ==
    /\ pc = "cs_for"
    /\ IF HasNext(idx, found_contracts)
       THEN LET parts == ReSplit(" ", found_contracts[idx][2])
            IN  /\ IF Len(parts) < 2
                   THEN /\ exc' = IndexError
                        /\ pc' = "cs_raised"
                        /\ UNCHANGED <<contract_name, stage, header, waits, fails>>
                   ELSE /\ CallGithubSearch("address")
                        /\ contract_name' = parts[2]
                        /\ UNCHANGED exc
                /\ contract_address' = parts[1]
                /\ issued' = <<>>
                /\ UNCHANGED old_contracts
       ELSE /\ old_contracts' = Supersede(old_contracts, new_contracts)
            /\ pc' = "cs_sleep"
            /\ UNCHANGED <<contract_address, contract_name, search, waits, fails, exc>>
    /\ UNCHANGED <<config, new_contracts, found_contracts, idx, search_address, search_name,
                   assign, value, rows, calls, browser, outputs, process>>

\* github_search: build the query URL, driver.get(url)
GsGet ==
    /\ pc = "gs_get"
    /\ touched' = touched \cup {BrowserOf(driver)}
    /\ issued' = Append(issued, stage)
    /\ \/ /\ current_url' = SearchUrl(IF stage = "address" THEN contract_address
                                                          ELSE contract_name)
          /\ pc' = "gs_wait"
          /\ UNCHANGED <<exc, fails>>
       \/ \* the navigation fails; nothing around driver.get catches it
          /\ fails < MaxFail
          /\ fails' = fails + 1
          /\ exc' = WebDriverException
          /\ pc' = "cs_raised"
          /\ UNCHANGED current_url
    /\ UNCHANGED <<config, locals, assign, value, rows, calls, waits, stage, header,
                   outputs, process>>

\* github_search: one turn of the while True around WebDriverWait(...).until(...)
GsWait ==
    /\ pc = "gs_wait"
    /\ touched' = touched \cup {BrowserOf(driver)}
    /\ \/ \* the header is present: else: break
          \E h \in Headers :
             /\ header' = h
             /\ pc' = "gs_parse"
             /\ waits' = 0 /\ fails' = 0
             /\ UNCHANGED exc
       \/ \* TimeoutException: sleep(5), driver.refresh(), next turn
          /\ fails < MaxFail
          /\ fails' = fails + 1
          /\ waits' = waits + 1
          /\ pc' = "gs_wait"
          /\ UNCHANGED <<exc, header>>
       \/ \* TimeoutException: sleep(5), then driver.refresh() itself fails
          /\ fails < MaxFail
          /\ fails' = fails + 1
          /\ waits' = waits + 1
          /\ exc' = WebDriverException
          /\ pc' = "cs_raised"
          /\ UNCHANGED header
    /\ UNCHANGED <<config, locals, assign, value, rows, calls, stage, issued,
                   current_url, outputs, process>>

\* github_search from the phrase test to its return, and the caller's assignment
GsParse ==
    /\ pc = "gs_parse"
    /\ touched' = touched \cup {BrowserOf(driver)}
    /\ LET res == github_search(header, limit, current_url)
       IN  IF res.exc /= Nothing
           THEN /\ exc' = res.exc
                /\ pc' = "cs_raised"
                /\ UNCHANGED <<search_address, search_name>>
           ELSE /\ pc' = "cs_if"
                /\ IF stage = "address"
                   THEN /\ search_address' = res.value
                        /\ UNCHANGED search_name
                   ELSE /\ search_name' = res.value
                        /\ UNCHANGED search_address
                /\ UNCHANGED exc
    /\ UNCHANGED <<config, old_contracts, new_contracts, found_contracts, idx,
                   contract_address, contract_name, wrap,
                   search, current_url, outputs, process>>

\* mutation: the name search is issued whatever the address search returned
Matched_never(result) == FALSE

\* "if search_address is not None" / "if search_name is not None"
Matched(result) == result /= None

\* the reference the running branch holds
Reference == IF stage = "address" THEN search_address ELSE search_name

\* the if / else after a search returned; the locals of the finished
\* github_search call are gone
CsIf ==
    /\ pc = "cs_if"
    /\ IF Matched(Reference)
       THEN /\ pc' = "cs_notify"
            /\ header' = <<>>
            /\ UNCHANGED <<stage, waits, fails>>
       ELSE IF stage = "address"
            THEN CallGithubSearch("name")
            ELSE /\ pc' = "cs_log"
                 /\ header' = <<>>
                 /\ UNCHANGED <<stage, waits, fails>>
    /\ UNCHANGED <<config, locals, assign, value, rows, calls, issued, exc, browser,
                   outputs, process>>

\* mutation: the name branch formats its message with the address search's locator
Message_address(site, reference) == <<site, SearchUrl(contract_address)>>

\* "\nNew {0} Contract on Github:\n{1}".format(web_url, search_address / search_name)
Message(site, reference) == <<site, reference>>

\* telegram_send_message(message); requests.post may raise
CsNotify ==
    /\ pc = "cs_notify"
    /\ \/ /\ sent' = Append(sent, Message(web_url, Reference))
          /\ pc' = "cs_log"
          /\ UNCHANGED exc
       \/ /\ exc' = ConnectionError
          /\ pc' = "cs_raised"
          /\ UNCHANGED sent
    /\ UNCHANGED <<config, locals, wrap, search, browser, log, process>>

\* mutation: the branch without a match has no logging.info line
LogInfo_matches_only(entries, reference, text) ==
    IF reference = None THEN entries ELSE Append(entries, <<reference, text>>)

\* logging.info([search_address, value]) / logging.info([search_name, value])
LogInfo(entries, reference, text) == Append(entries, <<reference, text>>)

\* logging.info([search_address or search_name, value]); next item.  The
\* locals of this turn are dead: the next turn assigns each before reading it
CsLog ==
    /\ pc = "cs_log"
    /\ log' = LogInfo(log, Reference, found_contracts[idx][2])
    /\ idx' = idx + 1
    /\ pc' = "cs_for"
    /\ contract_address' = None /\ contract_name' = None
    /\ search_address' = None /\ search_name' = None
    /\ stage' = Nothing /\ issued' = <<>>
    /\ UNCHANGED <<config, old_contracts, new_contracts, found_contracts,
                   wrap, header, exc, browser, sent, process>>

\* mutation: the loop condition is false after a cycle, the function returns
WhileTrue_once == FALSE

\* "while True:"
WhileTrue == TRUE

\* sleep(30), and the loop condition
CsSleep ==
    /\ pc = "cs_sleep"
    /\ pc' = IF WhileTrue THEN "cs_while" ELSE "cs_return"
    /\ UNCHANGED <<config, locals, wrap, search, exc, browser, outputs, process>>

(* ------------------- EthContractScrapper.py: start-up ------------------ *)

cs_state == <<config, locals, wrap, search, browser, outputs>>

\* the interpreter ends: the atexit registry is run, every registered
\* exit_handler calls driver.close()
InterpreterExit(path) ==
    /\ pc' = "exited"
    /\ exit_path' = path
    /\ closes' = closes + Len(registered)
    /\ session' = IF registered /= <<>> THEN "closed" ELSE session
    /\ UNCHANGED registered

\* def driver_wait_exception_handler(...) -> Callable[[f], f]: the name f is
\* not defined; an interpreter that evaluates annotations at definition
\* raises NameError, one that defers them goes on
EthDefine ==
    /\ pc = "eth_define"
    /\ \/ /\ exc' = NameError
          /\ InterpreterExit("fatal_error")
       \/ /\ pc' = "eth_args"
          /\ UNCHANGED <<exc, process>>
    /\ UNCHANGED cs_state

\* CLI.parse_args() and the eth / ftm test; CLI.exit on any other argument
EthArgs ==
    /\ pc = "eth_args"
    /\ \E argument \in {"eth", "ftm", "btc"} :
          IF argument \in {"eth", "ftm"}
          THEN /\ pc' = "eth_chrome"
               /\ UNCHANGED <<exc, process>>
          ELSE /\ exc' = SystemExit
               /\ InterpreterExit("normal")
    /\ UNCHANGED cs_state

\* driver = webdriver.Chrome(...); driver.minimize_window()
EthChrome ==
    /\ pc = "eth_chrome"
    /\ \/ /\ session' = "open"
          /\ pc' = "eth_register"
          /\ UNCHANGED <<exc, closes, registered, exit_path>>
       \/ /\ exc' = WebDriverException
          /\ InterpreterExit("fatal_error")
    /\ UNCHANGED cs_state

\* register(exit_handler(program_name)): the argument is evaluated first,
\* which runs exit_handler: driver.close() and the prints; it returns None
EthExitHandler ==
    /\ pc = "eth_register"
    /\ closes' = closes + 1
    /\ session' = "closed"
    /\ pc' = "eth_register_none"
    /\ UNCHANGED <<exc, registered, exit_path, cs_state>>

\* atexit.register(None): "the first argument must be callable"
EthRegister ==
    /\ pc = "eth_register_none"
    /\ exc' = TypeError
    /\ InterpreterExit("fatal_error")
    /\ UNCHANGED cs_state

\* Ctrl-C while the script runs: KeyboardInterrupt ends the interpreter
EthSignal ==
    /\ pc \in {"eth_args", "eth_chrome", "eth_register", "eth_register_none"}
    /\ exc' = KeyboardInterrupt
    /\ InterpreterExit("signal")
    /\ UNCHANGED cs_state

(* --------------------------- specification ----------------------------- *)

Next ==
    \/ CsStart
    \/ WrapperInvoke
    \/ WrapperExcept
    \/ CsUncaught
    \/ WrapperReturn
    \/ CsWhile
    \/ CsFor
    \/ GsGet
    \/ GsWait
    \/ GsParse
    \/ CsIf
    \/ CsNotify
    \/ CsLog
    \/ CsSleep
    \/ EthDefine
    \/ EthArgs
    \/ EthChrome
    \/ EthExitHandler
    \/ EthRegister
    \/ EthSignal

Spec == Init /\ [][Next]_vars

\* contract_scraping alone
NextScraping ==
    \/ CsStart
    \/ WrapperInvoke
    \/ WrapperExcept
    \/ CsUncaught
    \/ WrapperReturn
    \/ CsWhile
    \/ CsFor
    \/ GsGet
    \/ GsWait
    \/ GsParse
    \/ CsIf
    \/ CsNotify
    \/ CsLog
    \/ CsSleep

\* contract_scraping with the history of its snapshots recorded, for one
\* admission threshold and one session
InitHistory ==
    /\ Start(TRUE)
    /\ pc = "cs_start"
    /\ limit = 0
    /\ driver = "driver_1"

SpecHistory == InitHistory /\ [][NextScraping]_vars

\* contract_scraping as a running program: it takes its next step whenever it
\* has one; for one admission threshold and one session
InitLive ==
    /\ Start(FALSE)
    /\ pc = "cs_start"
    /\ limit = 0
    /\ driver = "driver_1"

\* every step of contract_scraping moves pc, but the retry of a timed out
\* wait in github_search, which counts a failure
progress == <<pc, fails>>

SpecLive == InitLive /\ [][NextScraping]_vars /\ WF_progress(NextScraping)

(* ------------------------------ runner --------------------------------- *)

\* The Multi-Target Runner: one worker per target, each running
\* contract_scraping on a session of its own.  A worker is followed at the
\* grain of its blocking calls:
\*   "fetch"       get_last_n_contracts is waiting for the listing to render
\*   "retry_wait"  the wrapper's sleep(wait_time) after a transient failure
\*   "resolve"     the for loop: github_search calls, their render waits
\*   "sleep"       sleep(30) between two cycles
\*   "raised"      an exception left contract_scraping

MaxCycles == 2

pipeline == <<pc, limit, driver, scrape, query, history, locals, wrap, search, exc, browser, outputs, process>>

\* the positions in which a worker is inside a blocking wait
Waits == {"fetch", "retry_wait", "resolve", "sleep"}

InitRunner ==
    /\ pc = "runner"
    /\ limit = 0
    /\ driver = "driver_1"
    /\ old_contracts = <<>> /\ new_contracts = <<>> /\ found_contracts = <<>>
    /\ idx = 0
    /\ contract_address = None /\ contract_name = None
    /\ search_address = None /\ search_name = None
    /\ stage = Nothing /\ assign = Nothing /\ value = <<>> /\ exc = Nothing
    /\ current_url = None
    /\ header = <<>> /\ rows = <<>> /\ calls = <<>>
    /\ waits = 0 /\ fails = 0
    /\ issued = <<>> /\ sent = <<>> /\ log = <<>>
    /\ session = "none" /\ closes = 0 /\ registered = <<>> /\ exit_path = "none"
    /\ touched = {}
    /\ wpc = [t \in Targets |-> "none"]
    /\ wcycles = [t \in Targets |-> 0]
    /\ ScrapeIdle
    /\ QueryIdle
    /\ tracking = FALSE /\ snaps = <<>>

\* mutation: a wait of one worker holds up the others
Ready_lockstep(w, t) ==
    /\ w[t] \in Waits
    /\ \A u \in Targets \ {t} : w[u] \notin {"retry_wait", "sleep"}

\* a started worker that has not ended runs whatever the others are doing
Ready(w, t) == w[t] \in Waits

\* mutation: an exception in one worker brings every worker down
Raise_all(w, t) == [u \in Targets |-> "raised"]

\* an exception leaves contract_scraping: the worker that called it ends
Raise(w, t) == [w EXCEPT ![t] = "raised"]

\* the runner starts the worker of target t
RunnerStart(t) ==
    /\ wpc[t] = "none"
    /\ wpc' = [wpc EXCEPT ![t] = "fetch"]
    /\ UNCHANGED <<wcycles, pipeline>>

\* get_last_n_contracts under the wrapper: the listing renders, or a
\* WebDriverException is caught, or another exception passes through
WorkerFetch(t) ==
    /\ Ready(wpc, t)
    /\ wpc[t] = "fetch"
    /\ \/ wpc' = [wpc EXCEPT ![t] = "resolve"]
       \/ wpc' = [wpc EXCEPT ![t] = "retry_wait"]
       \/ wpc' = Raise(wpc, t)
    /\ UNCHANGED <<wcycles, pipeline>>

\* sleep(wait_time) is over: the wrapper calls the function again
WorkerRetryWait(t) ==
    /\ Ready(wpc, t)
    /\ wpc[t] = "retry_wait"
    /\ wpc' = [wpc EXCEPT ![t] = "fetch"]
    /\ UNCHANGED <<wcycles, pipeline>>

\* the for loop over the novel records: it ends and the previous snapshot is
\* replaced, or an exception of a split, a search or a notification leaves it
WorkerResolve(t) ==
    /\ Ready(wpc, t)
    /\ wpc[t] = "resolve"
    /\ \/ /\ wpc' = [wpc EXCEPT ![t] = "sleep"]
          /\ wcycles' = [wcycles EXCEPT ![t] = @ + 1]
       \/ /\ wpc' = Raise(wpc, t)
          /\ UNCHANGED wcycles
    /\ UNCHANGED pipeline

\* sleep(30) is over: the next cycle starts
WorkerSleep(t) ==
    /\ Ready(wpc, t)
    /\ wpc[t] = "sleep"
    /\ wcycles[t] < MaxCycles
    /\ wpc' = [wpc EXCEPT ![t] = "fetch"]
    /\ UNCHANGED <<wcycles, pipeline>>

WorkerStep(t) ==
    \/ WorkerFetch(t)
    \/ WorkerRetryWait(t)
    \/ WorkerResolve(t)
    \/ WorkerSleep(t)

NextRunner ==
    \E t \in Targets :
        \/ RunnerStart(t)
        \/ WorkerFetch(t)
        \/ WorkerRetryWait(t)
        \/ WorkerResolve(t)
        \/ WorkerSleep(t)

SpecRunner == InitRunner /\ [][NextRunner]_vars

(* ----------------------- get_all_search_contracts ---------------------- *)

MaxResults == 2
MaxCards == 3
MaxPages == 2

\* a card of the search page: "full" has its identity link and two or more
\* spans, "short" has the link and fewer than two spans, "bare" has no
\* "text-truncate text-primary" element
CardKinds == {"full", "short", "bare"}

\* root.find_class("card-body p-4") of one result page
PageCards == SeqsUpTo(CardKinds, MaxCards)

\* pandas.concat(pages, ignore_index=True): the rows of the frames, in order
RECURSIVE concat(_)
concat(frames) ==
    IF frames = <<>> THEN <<>>
    ELSE frames[1] \o concat(Tail(frames))

\* "if index >= max_results: break", index counted from 0
Break(i, limit_) == i >= limit_

InitScrape ==
    /\ pc = "scrape"
    /\ limit = 0
    /\ driver = "driver_1"
    /\ old_contracts = <<>> /\ new_contracts = <<>> /\ found_contracts = <<>>
    /\ idx = 0
    /\ contract_address = None /\ contract_name = None
    /\ search_address = None /\ search_name = None
    /\ stage = Nothing /\ assign = Nothing /\ value = <<>> /\ exc = Nothing
    /\ current_url = None
    /\ header = <<>> /\ rows = <<>> /\ calls = <<>>
    /\ waits = 0 /\ fails = 0
    /\ issued = <<>> /\ sent = <<>> /\ log = <<>>
    /\ session = "open" /\ closes = 0 /\ registered = <<>> /\ exit_path = "none"
    /\ touched = {}
    /\ wpc = [t \in Targets |-> "none"]
    /\ wcycles = [t \in Targets |-> 0]
    /\ spc = "gasc_start"
    /\ max_results \in 0..MaxResults
    /\ cards = <<>> /\ index = 0 /\ table = <<>>
    /\ pages = <<>> /\ info = <<>>
    /\ QueryIdle
    /\ tracking = FALSE /\ snaps = <<>>

rest == <<pc, limit, driver, runner, query, history, locals, wrap, search, exc, browser, outputs, process>>

\* get_all_search_contracts up to "while True": driver.get(url), pages = []
GascStart ==
    /\ spc = "gasc_start"
    /\ spc' = "gasc_while"
    /\ UNCHANGED <<max_results, cards, index, table, pages, info, rest>>

\* the call of search_contracts_to_df: the page source is parsed, table = []
DfCall ==
    /\ spc = "gasc_while"
    /\ \E c \in PageCards : cards' = c
    /\ index' = 0
    /\ table' = <<>>
    /\ spc' = "df_for"
    /\ UNCHANGED <<max_results, pages, info, rest>>

\* one turn of "for index, contract in enumerate(...)", or the return of the
\* frame and pages.append(page_info)
DfFor ==
    /\ spc = "df_for"
    /\ IF index >= Len(cards) \/ Break(index, max_results)
       THEN /\ pages' = Append(pages, table)
            /\ cards' = <<>> /\ index' = 0 /\ table' = <<>>
            /\ spc' = "gasc_next"
       ELSE LET contract == cards[index + 1]
            IN  /\ IF contract = "bare"
                   THEN \* find_class(...)[0] outside the try: IndexError
                        /\ spc' = "gasc_raised"
                        /\ UNCHANGED <<table, index>>
                   ELSE /\ table' = IF contract = "full"
                                    THEN Append(table, <<Len(pages) + 1, index>>)
                                    ELSE table
                        /\ index' = index + 1
                        /\ spc' = "df_for"
                /\ UNCHANGED <<cards, pages>>
    /\ UNCHANGED <<max_results, info, rest>>

\* the "Next" link: clicked, or WebDriverException and break; then concat,
\* to_csv and return
GascNext ==
    /\ spc = "gasc_next"
    /\ \/ /\ Len(pages) < MaxPages
          /\ spc' = "gasc_while"
          /\ UNCHANGED info
       \/ /\ info' = concat(pages)
          /\ spc' = "gasc_return"
    /\ UNCHANGED <<max_results, cards, index, table, pages, rest>>

NextScrape ==
    \/ GascStart
    \/ DfCall
    \/ DfFor
    \/ GascNext

SpecScrape == InitScrape /\ [][NextScrape]_vars

(* ------------------- github_search: the language filter ---------------- *)

\* longest lang argument
MaxLang == 3

\* the characters of a lang argument: two letters in either case, one
\* character without case
LowerCase == <<"s", "o">>
UpperCase == <<"S", "O">>
Characters == {"s", "o", "S", "O", "+"}

Languages == SeqsUpTo(Characters, MaxLang)

\* str.lower() and str.upper() on one character
lower(c) ==
    IF \E i \in DOMAIN UpperCase : UpperCase[i] = c
    THEN LowerCase[CHOOSE i \in DOMAIN UpperCase : UpperCase[i] = c]
    ELSE c

upper(c) ==
    IF \E i \in DOMAIN LowerCase : LowerCase[i] = c
    THEN UpperCase[CHOOSE i \in DOMAIN LowerCase : LowerCase[i] = c]
    ELSE c

\* str.lower() on a text
RECURSIVE Lower(_)
Lower(text) ==
    IF text = <<>> THEN <<>> ELSE <<lower(Head(text))>> \o Lower(Tail(text))

\* mutation: lang.lower() is left out
Capitalised_first_only(text) == <<upper(text[1])>> \o Tail(text)

\* lang = lang.lower(); lang = lang[0].upper() + lang[1:]
Capitalised(text) == <<upper(Lower(text)[1])>> \o Tail(Lower(text))

\* "...search?q={0}+language:{1}+comments:{2}&type={3}".format(keyword, lang, ...)
QueryUrl(keyword, filter) ==
    <<"https://github.com/search?q=", keyword, "+language:", filter>>

InitQuery ==
    /\ pc = "search"
    /\ limit = 0
    /\ driver = "driver_1"
    /\ old_contracts = <<>> /\ new_contracts = <<>> /\ found_contracts = <<>>
    /\ idx = 0
    /\ contract_address = None /\ contract_name = None
    /\ search_address = None /\ search_name = None
    /\ stage = Nothing /\ assign = Nothing /\ value = <<>> /\ exc = Nothing
    /\ current_url = None
    /\ header = <<>> /\ rows = <<>> /\ calls = <<>>
    /\ waits = 0 /\ fails = 0
    /\ issued = <<>> /\ sent = <<>> /\ log = <<>>
    /\ session = "open" /\ closes = 0 /\ registered = <<>> /\ exit_path = "none"
    /\ touched = {}
    /\ wpc = [t \in Targets |-> "none"]
    /\ wcycles = [t \in Targets |-> 0]
    /\ ScrapeIdle
    /\ lpc = "gs_lang"
    /\ language \in Languages
    /\ lang = language
    /\ url = <<>>
    /\ tracking = FALSE /\ snaps = <<>>

others == <<pc, limit, driver, runner, scrape, history, locals, wrap, search, exc,
            browser, outputs, process>>

\* if lang != "": lang = lang.lower(); lang = lang[0].upper() + lang[1:]
GsLang ==
    /\ lpc = "gs_lang"
    /\ IF lang /= <<>>
       THEN /\ lang' = Capitalised(lang)
            /\ lpc' = "gs_url"
       ELSE /\ lpc' = "gs_url"
            /\ UNCHANGED lang
    /\ UNCHANGED <<language, url, others>>

\* url = "...".format(keyword, lang, comments, type_search)
GsUrl ==
    /\ lpc = "gs_url"
    /\ url' = QueryUrl(<<"Foo">>, lang)
    /\ lpc' = "gs_built"
    /\ UNCHANGED <<language, lang, others>>

NextQuery ==
    \/ GsLang
    \/ GsUrl

SpecQuery == InitQuery /\ [][NextQuery]_vars

(* ------------------------------ claims --------------------------------- *)

\* positions of contract_scraping between the diff and the end of the for loop
Resolving == {"cs_for", "gs_get", "gs_wait", "gs_parse", "cs_if", "cs_notify", "cs_log"}

\* positions inside the decorated get_last_n_contracts call
InWrapper == {"glc_call", "glc_except", "glc_else", "glc_raise"}

\* C1: the result of dict_complement_b(A, B) is a mapping whose keys are exactly
\* the keys of B that are not keys of A, each with B's value; a key of both is
\* left out even when B's value differs from A's.
C1_NoveltyIsKeyComplement ==
    pc \in Resolving =>
        /\ DictKeys(found_contracts) = DictKeys(new_contracts) \ DictKeys(old_contracts)
        /\ Len(found_contracts) = Cardinality(DictKeys(found_contracts))
        /\ \A k \in DictKeys(found_contracts) :
              DictGet(found_contracts, k) = DictGet(new_contracts, k)

\* a cycle whose snapshots share a key with two different texts and has a novel key
C1_Witness ==
    /\ pc = "cs_for"
    /\ found_contracts /= <<>>
    /\ \E k \in DictKeys(old_contracts) \cap DictKeys(new_contracts) :
          DictGet(old_contracts, k) /= DictGet(new_contracts, k)

\* C2: the name-keyed search is issued only after the address-keyed search of
\* the same record returned no match; after an address match it is never issued.
C2_NameSearchOnlyAfterAddressMiss ==
    /\ (\E i \in DOMAIN issued : issued[i] = "name") =>
          /\ issued = <<"address", "name">>
          /\ search_address = None
    /\ (pc \in {"cs_notify", "cs_log"} /\ search_address /= None) =>
          issued = <<"address">>

\* a record logged on its address match, with the address search alone issued
C2_Witness ==
    /\ pc = "cs_log"
    /\ search_address /= None
    /\ issued = <<"address">>

\* C3: for a limit >= 1 and a header showing a non-zero count c, github_search
\* returns the results-page URL iff c <= limit: c = limit is a match,
\* c = limit + 1 is not.
C3_AdmissionBoundary ==
    (pc = "cs_if" /\ limit >= 1) =>
        \A c \in 1..(MaxLimit + 1) :
            header = CountHeader(c) =>
                /\ (Reference /= None) <=> (c <= limit)
                /\ (Reference /= None) => (Reference = current_url)

\* a search whose count equals the limit returned the results-page URL
C3_Witness ==
    /\ pc = "cs_if"
    /\ limit >= 1
    /\ header = CountHeader(limit)
    /\ Reference = current_url

\* C4: a search whose parsed result count is 0 returns None, whatever the limit.
C4_ZeroCountIsNoMatch ==
    (pc = "cs_if" /\ header = CountHeader(0)) => Reference = None

\* C5: the wrapper returns the value of the first invocation that succeeds,
\* after one wait per transient failure and one invocation more than failures,
\* all with the same arguments; it never lets a transient failure out.
C5_RetryUntilSuccess ==
    /\ pc = "glc_else" =>
          /\ exc = Nothing
          /\ waits = fails
          /\ Len(calls) = fails + 1
          /\ \A i \in DOMAIN calls : calls[i] = <<"driver", web_url>>
          /\ value = get_last_n_contracts(rows, NContracts).value
    /\ pc = "glc_raise" => exc \notin Transient

\* a call that succeeded after the largest number of transient failures
C5_Witness ==
    /\ pc = "glc_else"
    /\ fails = MaxFail
    /\ waits = MaxFail

\* C6: an exception that is not a transient fetch error leaves the wrapper on
\* the invocation that raised it: every wait follows a transient failure, and
\* the raising invocation is the last one.
C6_StructuralFailurePropagates ==
    /\ pc \in InWrapper => (waits <= fails /\ Len(calls) <= fails + 1)
    /\ (pc = "glc_except" /\ exc \notin Transient) =>
          (waits = fails /\ Len(calls) = fails + 1)
    /\ pc = "glc_raise" =>
          (exc = IndexError /\ waits = fails /\ Len(calls) = fails + 1)

\* an IndexError on a short table leaving the wrapper after earlier retries
C6_Witness ==
    /\ pc = "glc_raise"
    /\ exc = IndexError
    /\ fails >= 1

\* C7: no transient fetch error ever leaves contract_scraping.
C7_NoTransientReachesDriver ==
    pc = "cs_raised" => exc \notin Transient

\* C8: on a table of m < n rows get_last_n_contracts returns the snapshot of
\* those m rows and raises nothing.
C8_ShortListingReturnsAllRows ==
    (pc \in {"glc_else", "glc_except"} /\ exc \notin Transient
        /\ Len(rows) < NContracts) =>
        /\ exc = Nothing
        /\ value = RowsToDict(rows, Len(rows))

\* C9: a process that ends after it opened a browser session has called
\* driver.close() exactly once, on every exit path.
C9_ReleasedExactlyOnce ==
    (pc = "exited" /\ session /= "none") => closes = 1

\* C10: driver.close() is only ever called by the interpreter's exit run, at
\* the end of the process.
C10_ReleasedOnlyAtExit ==
    [][closes' /= closes => pc' = "exited"]_vars

\* positions of one record's turn of the for loop, after the split lines
InRecord == {"gs_get", "gs_wait", "gs_parse", "cs_if", "cs_notify", "cs_log"}

SameKeys == DictKeys(new_contracts) = DictKeys(old_contracts)

\* C11: in a cycle whose current snapshot has the key set of the previous one
\* the novelty set is empty, and the cycle goes from the diff straight to the
\* sleep: no search, no notification, no log entry.
C11_SameKeysQuietCycle ==
    /\ [](  (pc \in Resolving /\ SameKeys) =>
                /\ found_contracts = <<>>
                /\ pc = "cs_for"
                /\ issued = <<>> /\ sent = <<>> /\ log = <<>>)
    /\ [][ (pc = "cs_for" /\ SameKeys) =>
                /\ pc' = "cs_sleep"
                /\ issued' = <<>> /\ sent' = <<>> /\ log' = <<>> ]_vars

\* a cycle whose snapshot kept its keys while a row text changed
C11_Witness ==
    /\ pc = "cs_for"
    /\ SameKeys
    /\ old_contracts /= <<>>
    /\ old_contracts /= new_contracts

\* the search locators of a record's address and name tokens
RecordUrls(text) ==
    LET parts == ReSplit(" ", text)
    IN  {SearchUrl(parts[i]) : i \in {j \in DOMAIN parts : j <= 2}}

\* C12: when the driver moves to the next record, and when the cycle ends,
\* the log holds exactly one entry for every record handled so far: the
\* outcome (a match reference of that record, or None) and the row text.
C12_OneLogEntryPerRecord ==
    /\ pc \in Resolving =>
          /\ Len(log) = idx - 1
          /\ \A i \in DOMAIN log :
                /\ log[i][2] = found_contracts[i][2]
                /\ \/ log[i][1] = None
                   \/ log[i][1] \in RecordUrls(found_contracts[i][2])
    /\ pc = "cs_sleep" => Len(log) = Len(found_contracts)

\* a cycle that logged one record without a match and one with a match
C12_Witness ==
    /\ pc = "cs_for"
    /\ \E i, j \in DOMAIN log : log[i][1] = None /\ log[j][1] /= None

\* the log entries that carry a match reference
MatchedEntries == SelectSeq(log, LAMBDA e : e[1] /= None)

\* C13: the notifications of a cycle are, in order, one per record whose
\* address search or else name search matched, each carrying that search's
\* reference; a record's notification is sent before its log entry is written,
\* and a record without a match gets none.
C13_NotifyIffMatch ==
    (pc \in Resolving \cup {"cs_sleep"}) =>
        LET inflight == pc = "cs_log" /\ Reference /= None
        IN  /\ Len(sent) = Len(MatchedEntries) + (IF inflight THEN 1 ELSE 0)
            /\ \A i \in DOMAIN MatchedEntries :
                  sent[i] = <<web_url, MatchedEntries[i][1]>>
            /\ inflight =>
                  /\ sent[Len(sent)] = <<web_url, Reference>>
                  /\ Reference = current_url
                  /\ Reference = IF search_address /= None THEN search_address
                                                           ELSE search_name
            /\ pc = "cs_notify" => Reference /= None
            /\ (pc = "cs_log" /\ Reference = None) =>
                  (search_address = None /\ search_name = None)

\* a record matched on its name: notified, log entry still to be written
C13_Witness ==
    /\ pc = "cs_log"
    /\ stage = "name"
    /\ search_name /= None
    /\ sent /= <<>>

\* C14: a failure of the notification transport does not end contract_scraping.
C14_NotifyFailureSurvived ==
    pc = "cs_raised" => exc /= ConnectionError

\* C15: a search whose header has no parsable count returns None and raises
\* nothing.
C15_UnparsableCountIsNoMatch ==
    (header \in UnparsableHeaders /\ pc /= "gs_parse") =>
        (pc = "cs_if" /\ exc = Nothing /\ Reference = None)

\* position of a key in a dict's iteration order
PosIn(d, k) == CHOOSE i \in DOMAIN d : d[i][1] = k

\* C16: found_contracts iterates in the order of new_contracts, and while a
\* record is being searched every earlier record of that order has its log
\* entry and no later record has been touched.
C16_RankOrder ==
    pc \in Resolving =>
        /\ \A i, j \in DOMAIN found_contracts :
              i < j => PosIn(new_contracts, found_contracts[i][1])
                           < PosIn(new_contracts, found_contracts[j][1])
        /\ pc \in InRecord =>
              /\ idx \in DOMAIN found_contracts
              /\ contract_address = ReSplit(" ", found_contracts[idx][2])[1]
              /\ contract_name = ReSplit(" ", found_contracts[idx][2])[2]
              /\ \A i \in 1..(idx - 1) : log[i][2] = found_contracts[i][2]
              /\ Len(log) < idx /\ Len(sent) <= idx
        /\ pc \in {"gs_wait", "gs_parse", "cs_if"} =>
              current_url \in RecordUrls(found_contracts[idx][2])

\* the second of two novel records being searched, after a non-empty previous snapshot
C16_Witness ==
    /\ pc = "gs_wait"
    /\ idx = 2
    /\ Len(found_contracts) = 2
    /\ Len(log) = 1
    /\ old_contracts /= <<>>

\* C17: old_contracts is assigned by the INIT fetch and then only after the
\* last novel record of a cycle was logged, with that cycle's snapshot; the
\* sleep follows and the next fetch starts with old_contracts equal to the
\* snapshot of the cycle before.
C17_PreviousUpdatedAfterCycle ==
    /\ [][ old_contracts' /= old_contracts =>
              \/ /\ pc = "glc_else" /\ assign = "old_contracts"
                 /\ new_contracts = <<>>
                 /\ old_contracts' = value
              \/ /\ pc = "cs_for"
                 /\ idx = Len(found_contracts) + 1
                 /\ Len(log) = Len(found_contracts)
                 /\ old_contracts' = new_contracts
                 /\ pc' = "cs_sleep" ]_vars
    /\ [][ (pc = "cs_sleep" => pc' \in {"cs_sleep", "cs_while"})
           /\ ((pc /= "cs_while" /\ pc' = "cs_while") => pc \in {"cs_sleep", "glc_else"}) ]_vars
    /\ []( (pc \in {"cs_sleep", "cs_while"} \cup InWrapper /\ assign /= "old_contracts") =>
              (new_contracts = <<>> \/ old_contracts = new_contracts) )

\* a cycle with two novel records, both logged, at its sleep
C17_Witness ==
    /\ pc = "cs_sleep"
    /\ Len(found_contracts) = 2
    /\ Len(log) = 2
    /\ old_contracts = new_contracts

\* C20: every navigation, wait, refresh and read of contract_scraping and of
\* the functions it calls goes to the session it was handed as driver.
C20_OwnSessionOnly ==
    touched \subseteq {driver}

\* a search finished on the second session
C20_Witness ==
    /\ pc = "cs_if"
    /\ driver = "driver_2"
    /\ touched = {"driver_2"}

\* a worker that is running and has cycles left to do
Polling(t) ==
    /\ wpc[t] \in Waits
    /\ wpc[t] = "sleep" => wcycles[t] < MaxCycles

\* C18: the step in which one worker ends on an exception changes nothing of
\* any other worker, and a worker whose neighbour has ended that way can
\* still take its next step.
C18_FailureEndsOnlyItsWorker ==
    /\ [][ \A t \in Targets :
              (wpc[t] /= "raised" /\ wpc'[t] = "raised") =>
                  \A u \in Targets \ {t} :
                      wpc'[u] = wpc[u] /\ wcycles'[u] = wcycles[u] ]_vars
    /\ [](\A t, u \in Targets :
              (t /= u /\ wpc[t] = "raised" /\ Polling(u)) => ENABLED WorkerStep(u))

\* one worker ended during its first cycle, the other has done all its cycles
C18_Witness ==
    \E t, u \in Targets :
        /\ wpc[t] = "raised" /\ wcycles[t] = 0
        /\ wpc[u] = "sleep" /\ wcycles[u] = MaxCycles

\* C19: whichever wait a worker is in, every other running worker can take
\* its next step, and a worker's step moves no other worker.
C19_WaitsAreLocal ==
    /\ [](\A t, u \in Targets :
              (t /= u /\ wpc[t] \in Waits /\ Polling(u)) => ENABLED WorkerStep(u))
    /\ [][ \A t \in Targets :
              (wpc[t] \in Waits /\ wpc'[t] /= wpc[t]) =>
                  \A u \in Targets \ {t} :
                      (wpc[u] \in Waits => wpc'[u] = wpc[u]) ]_vars

\* one worker is in the retry wait of its first fetch, the other has done
\* all its cycles
C19_Witness ==
    \E t, u \in Targets :
        /\ wpc[t] = "retry_wait" /\ wcycles[t] = 0
        /\ wcycles[u] = MaxCycles

\* the rank of the first of the rows read whose first token is k
FirstRank(listing, k) ==
    CHOOSE r \in DOMAIN listing :
        /\ ReSplit(" ", listing[r])[1] = k
        /\ \A q \in 1..(r - 1) : ReSplit(" ", listing[q])[1] /= k

\* C21: the snapshot get_last_n_contracts returns has pairwise distinct keys
\* and at most n entries; every key is the first token of the text stored
\* under it, that text is one of the first n rows, and the keys stand in the
\* rank order of their rows (of the first row, when two rows share a token).
C21_SnapshotShape ==
    pc = "glc_else" =>
        /\ Len(value) <= NContracts
        /\ \A i, j \in DOMAIN value : i /= j => value[i][1] /= value[j][1]
        /\ \A i \in DOMAIN value :
              /\ value[i][1] = ReSplit(" ", value[i][2])[1]
              /\ \E r \in 1..NContracts : rows[r] = value[i][2]
        /\ \A r \in 1..NContracts :
              ReSplit(" ", rows[r])[1] \in DictKeys(value)
        /\ \A i, j \in DOMAIN value :
              i < j => FirstRank(rows, value[i][1]) < FirstRank(rows, value[j][1])

\* a table of more than n rows, the first n with distinct first tokens
C21_Witness ==
    /\ pc = "glc_else"
    /\ Len(rows) > NContracts
    /\ Len(value) = NContracts

\* C22: no frame search_contracts_to_df returns has more than max_results
\* rows, and the frame get_all_search_contracts returns has no more than
\* max_results rows in all.
C22_AtMostMaxResults ==
    /\ \A p \in DOMAIN pages : Len(pages[p]) <= max_results
    /\ spc = "gasc_return" => Len(info) <= max_results

\* the keys of the records the cycle has logged
LoggedKeys == {ReSplit(" ", log[i][2])[1] : i \in DOMAIN log}

\* a key of the snapshot two cycles back that left the previous snapshot and
\* is in the current one
Returned(k) ==
    /\ Len(snaps) = 3
    /\ k \in snaps[1] /\ k \notin snaps[2] /\ k \in snaps[3]

\* C23: the novel records of a cycle are the keys of its snapshot that are
\* not in the snapshot before it, whatever the snapshot before that held: a
\* key that left and came back is novel again, a key that stayed is not; at
\* the cycle's sleep exactly the novel keys have a log entry.
C23_NoveltyFromPreviousOnly ==
    (pc \in Resolving \cup {"cs_sleep"}) =>
        LET n == Len(snaps)
        IN  /\ n >= 2
            /\ DictKeys(found_contracts) = snaps[n] \ snaps[n - 1]
            /\ \A k \in snaps[n] :
                  /\ Returned(k) => k \in DictKeys(found_contracts)
                  /\ k \in snaps[n - 1] => k \notin DictKeys(found_contracts)
            /\ pc = "cs_sleep" => LoggedKeys = snaps[n] \ snaps[n - 1]

\* a key that was in the snapshot two cycles back, left, came back and is
\* logged again
C23_Witness ==
    /\ pc = "cs_sleep"
    /\ \E k \in LoggedKeys : Returned(k)

\* C24: contract_scraping stops only on an exception: unless one has left
\* it, it always has a next step, every cycle that reaches the for loop
\* reaches the sleep, and it is at the head of the loop again and again.
C24_NoTerminalState ==
    /\ [](pc /= "cs_raised" => ENABLED NextScraping)
    /\ (pc = "cs_for") ~> (pc \in {"cs_sleep", "cs_raised"})
    /\ []<>(pc \in {"cs_while", "cs_raised"})

\* back at the head of the loop after a cycle that resolved novel records
C24_Witness ==
    /\ pc = "cs_while"
    /\ found_contracts /= <<>>
    /\ Len(log) = Len(found_contracts)
    /\ old_contracts = new_contracts

\* the number github_search compares with the limit
Compared(text) == IntOf(ReSubComma(ReFindAll(text)[1]))

\* C25: a count printed as 1,234 is parsed without an exception, the value
\* compared with the limit is 1234, and the search matches only if 1234 is
\* within the limit.
C25_SeparatorsStripped ==
    (header = SeparatedHeader /\ pc /= "gs_parse") =>
        /\ pc = "cs_if"
        /\ exc = Nothing
        /\ Compared(header) = 1234
        /\ (Reference /= None) <=> ~TooManyResults(1234, limit)

\* a search that showed 1,234 results has returned
C25_Witness ==
    /\ pc = "cs_if"
    /\ header = SeparatedHeader
    /\ stage = "name"
    /\ Reference = None

\* the cased letters of a text, wherever they are
UpperSet == {UpperCase[i] : i \in DOMAIN UpperCase}
LowerSet == {LowerCase[i] : i \in DOMAIN LowerCase}

\* what github_search does to a lang argument
Normalised(text) == IF text /= <<>> THEN Capitalised(text) ELSE text

\* C26: once github_search is past its first lines, lang is the argument in
\* lower case with only its first character upper-cased; normalising it again
\* changes nothing; every casing of the argument gives the same value; an
\* empty argument stays empty; and this value is the one put in the query.
C26_LanguageNormalised ==
    lpc \in {"gs_url", "gs_built"} =>
        /\ Len(lang) = Len(language)
        /\ \A i \in DOMAIN lang :
              /\ lower(lang[i]) = lower(language[i])
              /\ i = 1 => lang[i] \notin LowerSet
              /\ i > 1 => lang[i] \notin UpperSet
        /\ Normalised(lang) = lang
        /\ \A other \in Languages :
              Lower(other) = Lower(language) => Normalised(other) = lang
        /\ language = <<>> => lang = <<>>
        /\ lpc = "gs_built" => url = QueryUrl(<<"Foo">>, lang)

\* an argument with an upper-case letter after the first character has been
\* normalised and put in the query
C26_Witness ==
    /\ lpc = "gs_built"
    /\ Len(language) = MaxLang
    /\ language[1] \in LowerSet
    /\ \E i \in 2..Len(language) : language[i] \in UpperSet

\* the record of the running turn has nothing after its first token
SingleToken == idx \in DOMAIN found_contracts
                  /\ Len(ReSplit(" ", found_contracts[idx][2])) < 2

\* C27: the turn of a novel record whose text is a single token goes on to
\* the address search: once the turn is past its first navigation, the first
\* search issued for the record is the address search.
C27_SingleTokenStillSearched ==
    (SingleToken /\ pc \notin {"cs_for", "gs_get"}) =>
        /\ issued /= <<>>
        /\ issued[1] = "address"

====
